---- MODULE Spec2Model ----
(***************************************************************************)
(* Rule reconciliation of the VMAlert controller                           *)
(* (internal/controller/operator/factory/vmalert/rules.go).                *)
(*                                                                         *)
(* Strings are sequences of tokens.  The token set                         *)
(*   "-" ".yaml" "0".."9" "a" "default" "rulefiles" "vm-" "vmalert"        *)
(* is prefix-free, so a string has one token sequence only, concatenation  *)
(* of strings is concatenation of sequences, and the lexicographic order   *)
(* of token sequences under TokRank (the byte order of the tokens) is the  *)
(* byte-wise order sort.Strings uses.                                      *)
(* A file content is a sequence of one repeated letter; its Len is the     *)
(* byte length len(content).                                               *)
(*                                                                         *)
(* Where a computed value is used several times it is bound once, as in    *)
(* "CHOOSE r \in {F(x) : x \in {e}} : TRUE" (the value F(e)) or            *)
(* "\E x \in {e} : A(x)" (the action A(e)), so that TLC evaluates e once.  *)
(***************************************************************************)
EXTENDS Integers, Sequences, FiniteSets, TLC

VARIABLES
    sources,          \* rule objects the selectors return, in List order
    unmanaged,        \* cr.IsUnmanaged()
    store,            \* ConfigMap objects in the cluster
    statusStore,      \* VMRule status written by StatusForChildObjects
    pc,               \* position of the run of CreateOrUpdateRuleConfigMaps
    vmRules,          \* selectRulesUpdateStatus: vmRules[:cnt], the valid rules
    badRules,         \* selectRulesUpdateStatus: badRules
    rules,            \* selectRulesUpdateStatus: filename -> content
    badConfigsAdded,  \* argument of badConfigsTotal.Add in this run
    newConfigMaps,    \* desired ConfigMaps
    currentCMs,       \* what Get returned, one slot per desired ConfigMap
    idx,              \* loop index of the Get / Create / Update loops
    toCreate,         \* rulesCMDiff result
    toUpdate,         \* rulesCMDiff result
    calls,            \* write calls issued in this run, in order
    reloaded,         \* UpdatePodAnnotations was called in this run
    result,           \* what the run returned
    events,           \* API failures, foreign writes and rule changes so far
    prevOK,           \* the previous run returned without error
    prevQuiet,        \* no foreign write happened during the previous run
    srcChanged,       \* the rules changed since the previous run started
    wr,               \* foreign writes since the previous run ended
    owners            \* two VMAlert objects reconciled side by side

vars ==
    <<sources, unmanaged, store, statusStore, pc, vmRules, badRules, rules,
      badConfigsAdded, newConfigMaps, currentCMs, idx, toCreate, toUpdate,
      calls, reloaded, result, events, prevOK, prevQuiet, srcChanged, wr, owners>>

(***************************************************************************)
(* Bounds of the model.                                                    *)
(***************************************************************************)
\* files in a file map handed to makeRulesConfigMaps on its own
MaxFiles == 3
\* largest len(content) of a file handed to makeRulesConfigMaps on its own
MaxFileSize == 9
\* rule objects in one selection, selectRulesUpdateStatus on its own
MaxSources == 2
\* API failures + foreign writes + rule changes in one behaviour
MaxEvents == 2
\* desired ConfigMaps handed to rulesCMDiff on its own
MaxNewCMs == 3
\* bucket indexes for which the ConfigMap names of two VMAlert objects are compared
MaxBucketIndex == 11
\* rules of a group handed to deduplicateRules
MaxGroupRules == 3

(***************************************************************************)
(* Program constants (scaled: the byte counts of the build are far larger, *)
(* what the code depends on is len(defAlert) <= MaxConfigMapDataSize).     *)
(***************************************************************************)
\* vmv1beta1.MaxConfigMapDataSize
MaxConfigMapDataSize == 8
\* len(defAlert)
DefAlertSize == 1

(***************************************************************************)
(* Strings.                                                                *)
(***************************************************************************)
Digits == <<"0", "1", "2", "3", "4", "5", "6", "7", "8", "9">>

TokRank(t) ==
    CASE t = "-" -> 1
      [] t = ".yaml" -> 2
      [] t \in {Digits[i] : i \in 1..10} -> 2 + (CHOOSE i \in 1..10 : Digits[i] = t)
      [] t = "a" -> 13
      [] t = "default" -> 14
      [] t = "k" -> 15
      [] t = "l" -> 16
      [] t = "rulefiles" -> 17
      [] t = "vm-" -> 18
      [] t = "vmalert" -> 19

\* s < t of Go strings
RECURSIVE StrLess(_, _)
StrLess(s, t) ==
    IF t = <<>> THEN FALSE
    ELSE IF s = <<>> THEN TRUE
    ELSE IF Head(s) = Head(t) THEN StrLess(Tail(s), Tail(t))
    ELSE TokRank(Head(s)) < TokRank(Head(t))

\* sort.Strings over the elements of a set of strings
RECURSIVE SortStrings(_)
SortStrings(S) ==
    IF S = {} THEN <<>>
    ELSE CHOOSE r \in {<<m>> \o SortStrings(S \ {m}) :
                          m \in {CHOOSE x \in S : \A y \in S \ {x} : StrLess(x, y)}} : TRUE

\* strconv.Itoa
RECURSIVE Itoa(_)
Itoa(i) ==
    IF i < 10 THEN <<Digits[i + 1]>>
    ELSE Itoa(i \div 10) \o <<Digits[(i % 10) + 1]>>

\* a content of n bytes
Content(letter, n) == [i \in 1..n |-> letter]

\* map[string]string{}
EmptyMap == [x \in {} |-> <<>>]

\* m[k] = v
MapPut(m, k, v) == [x \in (DOMAIN m) \cup {k} |-> IF x = k THEN v ELSE m[x]]

\* labels.Merge, and the copy loop of lines 323-325: b's values win
Merge(a, b) ==
    [x \in (DOMAIN a) \cup (DOMAIN b) |-> IF x \in DOMAIN b THEN b[x] ELSE a[x]]

\* the elements of a sequence
Range(s) == {s[i] : i \in 1..Len(s)}

(***************************************************************************)
(* The owning VMAlert.                                                     *)
(***************************************************************************)
VMAlertCR == [Name |-> <<"a">>, Namespace |-> <<"a">>]

FinalizerName == "apps.victoriametrics.com/finalizer"

managedByOperatorLabels == [k \in {"managed-by"} |-> "vm-operator"]

defAlert == Content("d", DefAlertSize)

DefaultFile == <<"default", "-", "vmalert", ".yaml">>

(***************************************************************************)
(* The Packer and the Artifact Builder.                                    *)
(***************************************************************************)
RECURSIVE SumLen(_, _)
SumLen(bucket, names) ==
    IF names = {} THEN 0
    ELSE CHOOSE r \in {Len(bucket[n]) + SumLen(bucket, names \ {n}) :
                          n \in {CHOOSE x \in names : TRUE}} : TRUE

bucketSize(bucket) == SumLen(bucket, DOMAIN bucket)

\* mutant: the name does not depend on the VMAlert
ruleConfigMapNameShared(vmName) == <<"vm-", "vmalert", "-", "rulefiles">>

ruleConfigMapName(vmName) == <<"vm-">> \o vmName \o <<"-", "rulefiles">>

makeRulesConfigMap(cr, ruleFiles) ==
    [Name        |-> ruleConfigMapName(cr.Name),
     Namespace   |-> cr.Namespace,
     Labels      |-> Merge([k \in {"vmalert-name"} |-> cr.Name], managedByOperatorLabels),
     Annotations |-> EmptyMap,
     Owner       |-> cr.Name,
     Finalizers  |-> {FinalizerName},
     Data        |-> ruleFiles]

\* mutant: the cap test allows one byte more
DoesNotFitOffByOne(bucket, content) ==
    bucketSize(bucket) + Len(content) > MaxConfigMapDataSize + 1

\* mutant: the test ignores what the current bucket holds
DoesNotFitIgnoresBucket(bucket, content) ==
    Len(content) > MaxConfigMapDataSize

\* the test of line 295: the file does not fit into the current bucket
DoesNotFit(bucket, content) ==
    bucketSize(bucket) + Len(content) > MaxConfigMapDataSize

\* mutant: on overflow the current bucket is emptied instead of a new one opened
RECURSIVE PackFilesReset(_, _, _, _)
PackFilesReset(ruleFiles, fileNames, buckets, currBucketIndex) ==
    IF fileNames = <<>> THEN buckets
    ELSE LET filename == Head(fileNames)
             over == DoesNotFit(buckets[currBucketIndex + 1], ruleFiles[filename])
             opened == IF over THEN [buckets EXCEPT ![currBucketIndex + 1] = EmptyMap]
                       ELSE buckets
         IN  CHOOSE r \in
                 {PackFilesReset(ruleFiles, rest, filled, currBucketIndex) :
                     rest \in {Tail(fileNames)},
                     filled \in {[opened EXCEPT ![currBucketIndex + 1] =
                         MapPut(opened[currBucketIndex + 1], filename, ruleFiles[filename])]}} :
                 TRUE

\* the loop of lines 293-300 (buckets is 1-based here, currBucketIndex 0-based)
RECURSIVE PackFiles(_, _, _, _)
PackFiles(ruleFiles, fileNames, buckets, currBucketIndex) ==
    IF fileNames = <<>> THEN buckets
    ELSE LET filename == Head(fileNames)
             over == DoesNotFit(buckets[currBucketIndex + 1], ruleFiles[filename])
             opened == IF over THEN Append(buckets, EmptyMap) ELSE buckets
             cur == IF over THEN currBucketIndex + 1 ELSE currBucketIndex
         IN  CHOOSE r \in
                 {PackFiles(ruleFiles, rest, filled, index) :
                     rest \in {Tail(fileNames)},
                     filled \in {[opened EXCEPT ![cur + 1] =
                         MapPut(opened[cur + 1], filename, ruleFiles[filename])]},
                     index \in {cur}} :
                 TRUE

makeRulesConfigMaps(cr, ruleFiles) ==
    CHOOSE ruleFileConfigMaps \in
        {[i \in 1..Len(buckets) |->
            [makeRulesConfigMap(cr, buckets[i]) EXCEPT !.Name = @ \o <<"-">> \o Itoa(i - 1)]] :
         buckets \in {CHOOSE b \in {PackFiles(ruleFiles, fileNames, <<EmptyMap>>, 0) :
                                       fileNames \in {SortStrings(DOMAIN ruleFiles)}} : TRUE}} :
        TRUE

(***************************************************************************)
(* Rule objects.  A rule object is                                         *)
(*   [Namespace, Name, Deleting, Invalid, Unrenderable, Content,           *)
(*    CurrentSyncError]                                                    *)
(* Deleting: DeletionTimestamp is set; Invalid: Validate() returns an      *)
(* error; Unrenderable: yaml.Marshal returns an error; Content: the text   *)
(* yaml.Marshal gives for the object's groups (after deduplication and     *)
(* the enforced namespace label, when configured).                         *)
(***************************************************************************)
NoError == <<>>

\* err.Error() of Validate
ErrValidate == <<"validation failed">>

\* fmt.Sprintf("cannot generate content for rule: %s, err :%s", pRule.Name, err)
ErrRender(name) == <<"cannot generate content for rule: ">> \o name \o <<", err :", "marshal failed">>

RuleObject(ns, name, shape) ==
    [Namespace |-> ns, Name |-> name,
     Deleting |-> shape.k = "deleting",
     Invalid |-> shape.k = "invalid",
     Unrenderable |-> shape.k = "unrenderable",
     Content |-> shape.c,
     CurrentSyncError |-> NoError]

Id(o) == <<o.Namespace, o.Name>>

\* fmt.Sprintf("%s-%s.yaml", pRule.Namespace, pRule.Name)
FileName(pRule) == pRule.Namespace \o <<"-">> \o pRule.Name \o <<".yaml">>

\* pRule.Validate() fails
Validate(pRule) == pRule.Invalid

generateContent(pRule) ==
    [err |-> pRule.Unrenderable, content |-> IF pRule.Unrenderable THEN <<>> ELSE pRule.Content]

\* the visitor of lines 188-195: objects being deleted are skipped
RECURSIVE VisitObjects(_)
VisitObjects(items) ==
    IF items = <<>> THEN <<>>
    ELSE IF Head(items).Deleting THEN VisitObjects(Tail(items))
    ELSE <<Head(items)>> \o VisitObjects(Tail(items))

\* mutant: an object that fails validation still gets its file rendered
RECURSIVE ValidateLoopLeaky(_, _)
ValidateLoopLeaky(items, acc) ==
    IF items = <<>> THEN acc
    ELSE LET pRule == Head(items)
             gen == generateContent(pRule)
         IN  IF Validate(pRule)
             THEN ValidateLoopLeaky(Tail(items),
                      [acc EXCEPT !.bad = Append(@,
                                      [pRule EXCEPT !.CurrentSyncError = ErrValidate]),
                                  !.rules = MapPut(@, FileName(pRule), pRule.Content)])
             ELSE IF gen.err
             THEN ValidateLoopLeaky(Tail(items),
                      [acc EXCEPT !.bad = Append(@,
                          [pRule EXCEPT !.CurrentSyncError = ErrRender(pRule.Name)])])
             ELSE ValidateLoopLeaky(Tail(items),
                      [acc EXCEPT !.valid = Append(@, pRule),
                                  !.rules = MapPut(@, FileName(pRule), gen.content)])

\* the loop of lines 208-224
RECURSIVE ValidateLoop(_, _)
ValidateLoop(items, acc) ==
    IF items = <<>> THEN acc
    ELSE LET pRule == Head(items)
             gen == generateContent(pRule)
         IN  IF Validate(pRule)
             THEN ValidateLoop(Tail(items),
                      [acc EXCEPT !.bad = Append(@,
                          [pRule EXCEPT !.CurrentSyncError = ErrValidate])])
             ELSE IF gen.err
             THEN ValidateLoop(Tail(items),
                      [acc EXCEPT !.bad = Append(@,
                          [pRule EXCEPT !.CurrentSyncError = ErrRender(pRule.Name)])])
             ELSE ValidateLoop(Tail(items),
                      [acc EXCEPT !.valid = Append(@, pRule),
                                  !.rules = MapPut(@, FileName(pRule), gen.content)])

\* mutant: the default rule is injected whatever the file map holds
InjectDefaultAlways(files) == MapPut(files, DefaultFile, defAlert)

\* lines 231-235
InjectDefault(files) ==
    IF Cardinality(DOMAIN files) = 0 THEN MapPut(files, DefaultFile, defAlert) ELSE files

\* reconcile.StatusForChildObjects, when it succeeds: every object's status is stored
RECURSIVE StatusForChildObjects(_, _)
StatusForChildObjects(stored, objs) ==
    IF objs = <<>> THEN stored
    ELSE StatusForChildObjects(
             MapPut(stored, Id(Head(objs)), Head(objs).CurrentSyncError), Tail(objs))

(***************************************************************************)
(* The Differ.                                                             *)
(***************************************************************************)
\* corev1.ConfigMap{}
ZeroCM ==
    [Name |-> <<>>, Namespace |-> <<>>, Labels |-> EmptyMap, Annotations |-> EmptyMap,
     Owner |-> <<>>, Finalizers |-> {}, Data |-> EmptyMap]

\* equality.Semantic.DeepEqual of two maps: equal keys and values (a nil map and
\* an empty map are both the empty function)
SemanticDeepEqual(a, b) == a = b

\* vmv1beta1.AddFinalizer(dst, src): dst gets src's finalizers and FinalizerName
AddFinalizer(dst, src) == [dst EXCEPT !.Finalizers = src.Finalizers \cup {FinalizerName}]

\* sort.Slice(cms, by Name)
RECURSIVE InsertByName(_, _)
InsertByName(cm, sorted) ==
    IF sorted = <<>> THEN <<cm>>
    ELSE IF StrLess(cm.Name, Head(sorted).Name) THEN <<cm>> \o sorted
    ELSE <<Head(sorted)>> \o InsertByName(cm, Tail(sorted))

RECURSIVE SortByName(_)
SortByName(cms) ==
    IF cms = <<>> THEN <<>>
    ELSE CHOOSE r \in {InsertByName(Head(cms), sorted) : sorted \in {SortByName(Tail(cms))}} :
             TRUE

\* index of the first ConfigMap of cms named name, 0 when there is none
RECURSIVE FirstNamed(_, _, _)
FirstNamed(cms, name, j) ==
    IF j > Len(cms) THEN 0
    ELSE IF cms[j].Name = name THEN j
    ELSE FirstNamed(cms, name, j + 1)

\* mutant: the labels are not compared
SameAsCurrentNoLabels(newCM, currentCM) ==
    /\ SemanticDeepEqual(newCM.Data, currentCM.Data)
    /\ SemanticDeepEqual(newCM.Annotations, currentCM.Annotations)

\* mutant: the data are not compared
SameAsCurrentNoData(newCM, currentCM) ==
    /\ SemanticDeepEqual(newCM.Labels, currentCM.Labels)
    /\ SemanticDeepEqual(newCM.Annotations, currentCM.Annotations)

\* the test of lines 168-170
SameAsCurrent(newCM, currentCM) ==
    /\ SemanticDeepEqual(newCM.Data, currentCM.Data)
    /\ SemanticDeepEqual(newCM.Labels, currentCM.Labels)
    /\ SemanticDeepEqual(newCM.Annotations, currentCM.Annotations)

\* mutant: a ConfigMap found in the cluster is always updated
RECURSIVE DiffLoopAlwaysUpdate(_, _, _)
DiffLoopAlwaysUpdate(currentCMs_, newCMs, acc) ==
    IF newCMs = <<>> THEN acc
    ELSE LET j == FirstNamed(currentCMs_, Head(newCMs).Name, 1)
         IN  IF j = 0
             THEN DiffLoopAlwaysUpdate(currentCMs_, Tail(newCMs),
                      [acc EXCEPT !.toCreate = Append(@, Head(newCMs))])
             ELSE DiffLoopAlwaysUpdate(currentCMs_, Tail(newCMs),
                      [acc EXCEPT !.toUpdate = Append(@, Head(newCMs))])

\* the loop of lines 161-180
RECURSIVE DiffLoop(_, _, _)
DiffLoop(currentCMs_, newCMs, acc) ==
    IF newCMs = <<>> THEN acc
    ELSE LET j == FirstNamed(currentCMs_, Head(newCMs).Name, 1)
             currentCM == currentCMs_[j]
             merged == [Head(newCMs) EXCEPT
                           !.Annotations = Merge(currentCM.Annotations, @)]
             newCM == AddFinalizer(merged, currentCM)
         IN  IF j = 0
             THEN DiffLoop(currentCMs_, Tail(newCMs),
                      [acc EXCEPT !.toCreate = Append(@, Head(newCMs))])
             ELSE IF SameAsCurrent(newCM, currentCM)
             THEN DiffLoop(currentCMs_, Tail(newCMs), acc)
             ELSE DiffLoop(currentCMs_, Tail(newCMs),
                      [acc EXCEPT !.toUpdate = Append(@, newCM)])

rulesCMDiff(currentCMs_, newCMs) ==
    IF Len(newCMs) = 0 THEN [toCreate |-> <<>>, toUpdate |-> <<>>]
    ELSE IF Len(currentCMs_) = 0 THEN [toCreate |-> newCMs, toUpdate |-> <<>>]
    ELSE DiffLoop(currentCMs_, newCMs, [toCreate |-> <<>>, toUpdate |-> <<>>])

\* mutant: the pods are reloaded only after an update
NeedsReloadUpdatesOnly(created, updated) == Len(updated) > 0

\* the test of line 138
NeedsReload(created, updated) == Len(created) > 0 \/ Len(updated) > 0

(***************************************************************************)
(* The inputs.                                                             *)
(***************************************************************************)
NameA == <<"a">>
NameAA == <<"a", "-", "a">>

\* (namespace, name) of the rule objects of a selection
SourceIds ==
    {<<NameA, NameA>>, <<NameAA, NameA>>, <<NameA, NameAA>>, <<<<"default">>, <<"vmalert">>>>}

SelectShapes ==
    {[k |-> "ok", c |-> Content(l, n)] : l \in {"x", "y"}, n \in {2, MaxConfigMapDataSize - 1}}
    \cup {[k |-> k, c |-> Content("x", 2)] : k \in {"deleting", "invalid", "unrenderable"}}

SelectObjects == {RuleObject(id[1], id[2], sh) : id \in SourceIds, sh \in SelectShapes}

\* lists of rule objects with pairwise distinct (namespace, name)
RECURSIVE ListsOver(_, _)
ListsOver(objs, n) ==
    IF n = 0 THEN {<<>>}
    ELSE LET shorter == ListsOver(objs, n - 1)
         IN  shorter \cup
             {Append(l, o) : l \in {m \in shorter : Len(m) = n - 1},
                             o \in objs} 

DistinctIds(l) == \A i, j \in 1..Len(l) : i # j => Id(l[i]) # Id(l[j])

SelectSourceLists == {l \in ListsOver(SelectObjects, MaxSources) : DistinctIds(l)}

\* file maps handed to makeRulesConfigMaps on its own
PackFileNames ==
    {id[1] \o <<"-">> \o id[2] \o <<".yaml">> : id \in SourceIds \cup {<<NameAA, NameAA>>}}

PackContents == {Content("x", n) : n \in 1..MaxFileSize} \cup {Content("y", 2)}

FileMaps ==
    UNION {[D -> PackContents] : D \in {E \in SUBSET PackFileNames : Cardinality(E) <= MaxFiles}}

\* the rule objects of the whole-run model: two objects, a few shapes each
RunObjectsA ==
    {RuleObject(NameA, NameA, sh) :
        sh \in {[k |-> "ok", c |-> Content("x", 2)],
                [k |-> "ok", c |-> Content("x", MaxConfigMapDataSize - 1)],
                [k |-> "invalid", c |-> Content("x", 2)]}}

RunObjectsB ==
    {RuleObject(NameA, NameAA, sh) :
        sh \in {[k |-> "ok", c |-> Content("y", MaxConfigMapDataSize - 1)],
                [k |-> "ok", c |-> Content("y", MaxConfigMapDataSize + 1)]}}

RunSourceLists ==
    {<<>>} \cup {<<a>> : a \in RunObjectsA} \cup {<<b>> : b \in RunObjectsB}
    \cup {<<a, b>> : a \in RunObjectsA, b \in RunObjectsB}

(***************************************************************************)
(* The run of CreateOrUpdateRuleConfigMaps.                                *)
(***************************************************************************)
NoResult == [err |-> "none", names |-> <<>>]

InitLocals ==
    /\ vmRules = <<>>
    /\ badRules = <<>>
    /\ rules = EmptyMap
    /\ badConfigsAdded = 0
    /\ newConfigMaps = <<>>
    /\ currentCMs = <<>>
    /\ idx = 0
    /\ toCreate = <<>>
    /\ toUpdate = <<>>
    /\ calls = <<>>
    /\ reloaded = FALSE
    /\ result = NoResult

InitCluster ==
    /\ store = {}
    /\ statusStore = EmptyMap
    /\ events = 0
    /\ prevOK = FALSE
    /\ prevQuiet = FALSE
    /\ srcChanged = FALSE
    /\ wr = "no"
    /\ owners = <<>>

hist == <<prevOK, prevQuiet, srcChanged, wr>>
selected == <<vmRules, badRules, rules, badConfigsAdded>>
planned == <<newConfigMaps, currentCMs, idx, toCreate, toUpdate>>

\* an API call may fail while the budget of events lasts
Outcomes == IF events < MaxEvents THEN {"ok", "error"} ELSE {"ok"}

Charge(outcome) == events' = IF outcome = "ok" THEN events ELSE events + 1

\* return nil, err
ReturnErr(err) ==
    /\ pc' = "done"
    /\ result' = [err |-> err, names |-> <<>>]

Call(op, target, res) == [op |-> op, target |-> target, res |-> res]

\* line 64: the run starts; line 66: an unmanaged VMAlert returns at once
StartRun ==
    /\ pc = "idle"
    /\ vmRules' = <<>>
    /\ badRules' = <<>>
    /\ rules' = EmptyMap
    /\ badConfigsAdded' = 0
    /\ newConfigMaps' = <<>>
    /\ currentCMs' = <<>>
    /\ idx' = 0
    /\ toCreate' = <<>>
    /\ toUpdate' = <<>>
    /\ calls' = <<>>
    /\ reloaded' = FALSE
    /\ IF unmanaged
       THEN pc' = "done" /\ result' = [err |-> "nil", names |-> <<>>]
       ELSE pc' = "select" /\ result' = NoResult
    /\ UNCHANGED <<owners, sources, unmanaged, store, statusStore, events, hist>>

\* lines 185-236: the objects are listed, validated and rendered
Select ==
    /\ pc = "select"
    /\ \E outcome \in Outcomes :
        /\ Charge(outcome)
        /\ IF outcome = "error"
           THEN /\ ReturnErr("select")
                /\ UNCHANGED selected
           ELSE \E acc \in {ValidateLoop(VisitObjects(sources),
                                  [valid |-> <<>>, bad |-> <<>>, rules |-> EmptyMap])} :
                    /\ vmRules' = acc.valid
                    /\ badRules' = acc.bad
                    /\ rules' = InjectDefault(acc.rules)
                    /\ badConfigsAdded' = badConfigsAdded + Len(acc.bad)
                    /\ pc' = "statusValid"
                    /\ UNCHANGED result
    /\ UNCHANGED <<owners, sources, unmanaged, store, statusStore, planned, calls, reloaded, hist>>

\* lines 239-241: the status of the valid objects is written
StatusValid ==
    /\ pc = "statusValid"
    /\ \E outcome \in Outcomes :
        /\ Charge(outcome)
        /\ calls' = Append(calls, Call("status", <<"valid">>, outcome))
        /\ IF outcome = "error"
           THEN /\ ReturnErr("status")
                /\ UNCHANGED statusStore
           ELSE /\ statusStore' = StatusForChildObjects(statusStore, vmRules)
                /\ pc' = "statusBad"
                /\ UNCHANGED result
    /\ UNCHANGED <<owners, sources, unmanaged, store, selected, planned, reloaded, hist>>

\* lines 242-251 and 74-90: the status of the bad objects is written, the
\* file map is returned and packed, and the Get loop starts
StatusBad ==
    /\ pc = "statusBad"
    /\ \E outcome \in Outcomes :
        /\ Charge(outcome)
        /\ calls' = Append(calls, Call("status", <<"bad">>, outcome))
        /\ IF outcome = "error"
           THEN /\ ReturnErr("cannot update bad rules statuses")
                /\ UNCHANGED <<statusStore, planned>>
           ELSE \E cms \in {makeRulesConfigMaps(VMAlertCR, rules)} :
                    /\ statusStore' = StatusForChildObjects(statusStore, badRules)
                    /\ newConfigMaps' = cms
                    /\ currentCMs' = [i \in 1..Len(cms) |-> ZeroCM]
                    /\ idx' = 1
                    /\ pc' = "get"
                    /\ UNCHANGED <<result, toCreate, toUpdate>>
    /\ UNCHANGED <<owners, sources, unmanaged, store, selected, reloaded, hist>>

\* makeRulesConfigMaps applied to a file map
Pack ==
    /\ pc = "pack"
    /\ \E cms \in {makeRulesConfigMaps(VMAlertCR, rules)} : newConfigMaps' = cms
    /\ pc' = "packed"
    /\ UNCHANGED <<owners, sources, unmanaged, store, statusStore, selected, currentCMs, idx,
                   toCreate, toUpdate, calls, reloaded, result, events, hist>>

InitPack ==
    /\ InitCluster
    /\ sources = <<>>
    /\ unmanaged = FALSE
    /\ vmRules = <<>>
    /\ badRules = <<>>
    /\ rules \in FileMaps
    /\ badConfigsAdded = 0
    /\ newConfigMaps = <<>>
    /\ currentCMs = <<>>
    /\ idx = 0
    /\ toCreate = <<>>
    /\ toUpdate = <<>>
    /\ calls = <<>>
    /\ reloaded = FALSE
    /\ result = NoResult
    /\ pc = "pack"

SpecPack == InitPack /\ [][Pack]_vars

InitSelect ==
    /\ InitCluster
    /\ InitLocals
    /\ sources \in SelectSourceLists
    /\ unmanaged = FALSE
    /\ pc = "idle"

NextSelect == StartRun \/ Select \/ StatusValid \/ StatusBad

SpecSelect == InitSelect /\ [][NextSelect]_vars

\* the object of the store with this identity, as a set of at most one element
Stored(ns, name) == {o \in store : o.Namespace = ns /\ o.Name = name}

\* newConfigMapNames
NamesOf(cms) == [i \in 1..Len(cms) |-> cms[i].Name]

\* return newConfigMapNames, nil
ReturnNames(cms) ==
    /\ pc' = "done"
    /\ result' = [err |-> "nil", names |-> NamesOf(cms)]

\* lines 76-85, one Get; after the last one lines 87-116: the fast-path test,
\* the sorts and rulesCMDiff
Get ==
    /\ pc = "get"
    /\ \E outcome \in Outcomes :
        /\ Charge(outcome)
        /\ IF outcome = "error"
           THEN /\ ReturnErr("get")
                /\ UNCHANGED planned
           ELSE LET cm == newConfigMaps[idx]
                    found == Stored(cm.Namespace, cm.Name)
                    got == IF found = {} THEN currentCMs
                           ELSE [currentCMs EXCEPT ![idx] = CHOOSE o \in found : TRUE]
                IN  IF idx < Len(newConfigMaps)
                    THEN /\ currentCMs' = got
                         /\ idx' = idx + 1
                         /\ UNCHANGED <<pc, result, newConfigMaps, toCreate, toUpdate>>
                    ELSE IF Len(got) = 0
                    THEN /\ currentCMs' = got
                         /\ toCreate' = newConfigMaps
                         /\ idx' = 1
                         /\ pc' = "fastCreate"
                         /\ UNCHANGED <<result, newConfigMaps, toUpdate>>
                    ELSE \E sortedNew \in {SortByName(newConfigMaps)},
                            sortedCur \in {SortByName(got)} :
                         \E diff \in {rulesCMDiff(sortedCur, sortedNew)} :
                             /\ currentCMs' = sortedCur
                             /\ newConfigMaps' = sortedNew
                             /\ toCreate' = diff.toCreate
                             /\ toUpdate' = diff.toUpdate
                             /\ idx' = 1
                             /\ IF diff.toCreate # <<>>
                                THEN pc' = "create" /\ UNCHANGED result
                                ELSE IF diff.toUpdate # <<>>
                                THEN pc' = "update" /\ UNCHANGED result
                                ELSE ReturnNames(sortedNew)
    /\ UNCHANGED <<owners, sources, unmanaged, store, statusStore, selected, calls, reloaded, hist>>

\* mutant: an already-exists answer aborts the run like any other error
CreateAbortsOnConflict(res) == res # "created"

\* mutant: no answer of Create aborts the run
CreateAbortsNever(res) == FALSE

\* lines 96-100 and 120-124: the error of Create returns from the run unless it
\* is already-exists
CreateAborts(res) == res = "error"

\* lines 93-102 (fast path) and 117-126: one Create
Create ==
    /\ pc \in {"create", "fastCreate"}
    /\ \E outcome \in Outcomes :
        LET cm == toCreate[idx]
            exists == Stored(cm.Namespace, cm.Name) # {}
            res == IF outcome = "error" THEN "error"
                   ELSE IF exists THEN "exists" ELSE "created"
        IN  /\ Charge(outcome)
            /\ calls' = Append(calls, Call("create", cm.Name, res))
            /\ store' = IF res = "created" THEN store \cup {cm} ELSE store
            /\ IF CreateAborts(res)
               THEN /\ ReturnErr("failed to create Configmap")
                    /\ UNCHANGED idx
               ELSE IF idx < Len(toCreate)
               THEN /\ idx' = idx + 1
                    /\ UNCHANGED <<pc, result>>
               ELSE IF pc = "fastCreate"
               THEN /\ ReturnNames(newConfigMaps)
                    /\ UNCHANGED idx
               ELSE /\ idx' = 1
                    /\ pc' = IF toUpdate # <<>> THEN "update" ELSE "reload"
                    /\ UNCHANGED result
    /\ UNCHANGED <<owners, sources, unmanaged, statusStore, selected, newConfigMaps, currentCMs,
                   toCreate, toUpdate, reloaded, hist>>

\* mutant: the update also removes the other ConfigMaps of the namespace
StoreAfterUpdatePruning(st, cm) ==
    {o \in st : o.Namespace # cm.Namespace} \cup {cm}

\* line 132: rclient.Update replaces the stored object of this identity
StoreAfterUpdate(st, cm) ==
    {o \in st : ~(o.Namespace = cm.Namespace /\ o.Name = cm.Name)} \cup {cm}

\* lines 127-136: finalize.FreeIfNeeded and one Update
Update ==
    /\ pc = "update"
    /\ \E outcome \in Outcomes, failing \in {"free", "update"} :
        LET cm == toUpdate[idx]
            old == Stored(cm.Namespace, cm.Name)
            freeRes == IF outcome = "error" /\ failing = "free" THEN "error" ELSE "ok"
            updRes == IF outcome = "error" \/ old = {} THEN "error" ELSE "ok"
        IN  /\ Charge(outcome)
            /\ IF freeRes = "error"
               THEN /\ calls' = Append(calls, Call("free", cm.Name, "error"))
                    /\ ReturnErr("free")
                    /\ UNCHANGED <<store, idx>>
               ELSE /\ calls' = calls \o <<Call("free", cm.Name, "ok"),
                                           Call("update", cm.Name, updRes)>>
                    /\ IF updRes = "error"
                       THEN /\ ReturnErr("failed to update rules Configmap")
                            /\ UNCHANGED <<store, idx>>
                       ELSE /\ store' = StoreAfterUpdate(store, cm)
                            /\ IF idx < Len(toUpdate)
                               THEN idx' = idx + 1 /\ UNCHANGED <<pc, result>>
                               ELSE idx' = 1 /\ pc' = "reload" /\ UNCHANGED result
    /\ UNCHANGED <<owners, sources, unmanaged, statusStore, selected, newConfigMaps, currentCMs,
                   toCreate, toUpdate, reloaded, hist>>

\* lines 138-147: the pods are annotated when something was created or updated;
\* an error of UpdatePodAnnotations is logged only
Reload ==
    /\ pc = "reload"
    /\ \E outcome \in Outcomes :
        /\ Charge(outcome)
        /\ IF NeedsReload(toCreate, toUpdate)
           THEN /\ reloaded' = TRUE
                /\ calls' = Append(calls, Call("reload", <<>>, outcome))
           ELSE UNCHANGED <<reloaded, calls>>
    /\ ReturnNames(newConfigMaps)
    /\ UNCHANGED <<owners, sources, unmanaged, store, statusStore, selected, planned, hist>>

\* the run has returned; the controller will reconcile again
FinishRun ==
    /\ pc = "done"
    /\ pc' = "idle"
    /\ vmRules' = <<>>
    /\ badRules' = <<>>
    /\ rules' = EmptyMap
    /\ badConfigsAdded' = 0
    /\ newConfigMaps' = <<>>
    /\ currentCMs' = <<>>
    /\ idx' = 0
    /\ toCreate' = <<>>
    /\ toUpdate' = <<>>
    /\ calls' = <<>>
    /\ reloaded' = FALSE
    /\ result' = NoResult
    /\ prevOK' = (result.err = "nil")
    /\ prevQuiet' = (wr # "run")
    /\ srcChanged' = FALSE
    /\ wr' = "no"
    /\ UNCHANGED <<owners, sources, unmanaged, store, statusStore, events>>

\* the selected rule objects or the VMAlert's selectors change between two runs
ChangeSources ==
    /\ pc = "idle"
    /\ events < MaxEvents
    /\ \E l \in RunSourceLists, u \in BOOLEAN :
        /\ <<l, u>> # <<sources, unmanaged>>
        /\ sources' = l
        /\ unmanaged' = u
    /\ srcChanged' = TRUE
    /\ events' = events + 1
    /\ UNCHANGED <<owners, store, statusStore, pc, selected, planned, calls, reloaded,
                   result, prevOK, prevQuiet, wr>>

\* ConfigMap names another writer may touch
WriterNames == {ruleConfigMapName(VMAlertCR.Name) \o <<"-">> \o Itoa(i) : i \in 0..2}

\* what another writer stores under a name
ForeignCM(name) ==
    [Name |-> name, Namespace |-> VMAlertCR.Namespace, Labels |-> EmptyMap,
     Annotations |-> EmptyMap, Owner |-> <<"vmalert">>, Finalizers |-> {},
     Data |-> [f \in {<<"a", "-", "a", ".yaml">>} |-> Content("z", 1)]]

\* another writer creates or replaces a ConfigMap, annotates it or deletes it
OtherWriter ==
    /\ events < MaxEvents
    /\ \E name \in WriterNames, op \in {"put", "annotate", "delete"} :
        LET old == Stored(VMAlertCR.Namespace, name)
            cur == CHOOSE o \in old : TRUE
        IN  /\ op \in {"annotate", "delete"} => old # {}
            /\ store' =
                 CASE op = "put" -> (store \ old) \cup {ForeignCM(name)}
                   [] op = "annotate" ->
                        (store \ old) \cup
                        {[cur EXCEPT !.Annotations = MapPut(@, "note", "set by hand")]}
                   [] op = "delete" -> store \ old
            /\ store' # store
    /\ events' = events + 1
    /\ wr' = IF pc = "idle" THEN (IF wr = "run" THEN "run" ELSE "gap") ELSE "run"
    /\ UNCHANGED <<owners, sources, unmanaged, statusStore, pc, selected, planned, calls,
                   reloaded, result, prevOK, prevQuiet, srcChanged>>

Init ==
    /\ InitCluster
    /\ InitLocals
    /\ sources \in RunSourceLists
    /\ unmanaged = FALSE
    /\ pc = "idle"

Reconcile ==
    StartRun \/ Select \/ StatusValid \/ StatusBad \/ Get \/ Create \/ Update \/ Reload
    \/ FinishRun

Next == Reconcile \/ ChangeSources \/ OtherWriter

Spec == Init /\ [][Next]_vars

\* the controller keeps reconciling: a run that can take a step takes it
LiveSpec == Spec /\ WF_vars(Reconcile)

(***************************************************************************)
(* rulesCMDiff on its own.                                                 *)
(***************************************************************************)

DiffData == {[f \in {<<"a", "-", "a", ".yaml">>} |-> Content(l, 2)] : l \in {"x", "y"}}

DiffAnnotations == {EmptyMap} \cup {[k \in {"note"} |-> v] : v \in {"one", "two"}}

\* the i-th desired ConfigMap: built by makeRulesConfigMaps, possibly annotated
DiffNewChoices(i) ==
    {[makeRulesConfigMap(VMAlertCR, [f \in {<<"a", "-", "a", ".yaml">>} |-> Content("x", 2)])
         EXCEPT !.Name = @ \o <<"-">> \o Itoa(i - 1), !.Annotations = a] :
        a \in {EmptyMap, [k \in {"note"} |-> "one"]}}

\* what Get leaves in the i-th slot: nothing, or the stored object of that name
DiffCurrentChoices(new) ==
    {ZeroCM}
    \cup {[new EXCEPT !.Data = d, !.Annotations = a, !.Finalizers = {}] :
            d \in DiffData, a \in DiffAnnotations}
    \cup {[new EXCEPT !.Data = d, !.Annotations = EmptyMap, !.Labels = EmptyMap] :
            d \in DiffData}

InitDiff ==
    /\ InitCluster
    /\ sources = <<>>
    /\ unmanaged = FALSE
    /\ vmRules = <<>>
    /\ badRules = <<>>
    /\ rules = EmptyMap
    /\ badConfigsAdded = 0
    /\ \E n \in 0..MaxNewCMs :
        /\ newConfigMaps \in {l \in [1..n -> UNION {DiffNewChoices(i) : i \in 1..n}] :
                                \A i \in 1..n : l[i] \in DiffNewChoices(i)}
        /\ \E cur \in [1..n -> UNION {DiffCurrentChoices(c) :
                                        c \in UNION {DiffNewChoices(i) : i \in 1..n}}] :
            /\ \A i \in 1..n : cur[i] \in DiffCurrentChoices(newConfigMaps[i])
            /\ currentCMs \in {SortByName(cur), <<>>}
    /\ idx = 0
    /\ toCreate = <<>>
    /\ toUpdate = <<>>
    /\ calls = <<>>
    /\ reloaded = FALSE
    /\ result = NoResult
    /\ pc = "diff"

\* rulesCMDiff applied to the two lists
Diff ==
    /\ pc = "diff"
    /\ \E diff \in {rulesCMDiff(currentCMs, newConfigMaps)} :
           /\ toCreate' = diff.toCreate
           /\ toUpdate' = diff.toUpdate
    /\ pc' = "diffed"
    /\ UNCHANGED <<owners, sources, unmanaged, store, statusStore, selected, newConfigMaps,
                   currentCMs, idx, calls, reloaded, result, events, hist>>

SpecDiff == InitDiff /\ [][Diff]_vars

(***************************************************************************)
(* deduplicateRules and calculateRuleID.  The strings of a rule are        *)
(* sequences over the tokens "up", "Down", "alerting", "recording", "k",   *)
(* "l" and the byte "0xff", none a prefix of another, so that two token    *)
(* sequences are equal exactly when the strings are.  A rule is            *)
(* [Expr, Record, Alert, Labels], Labels being the label pairs <<key,      *)
(* value>> in insertion order, with distinct keys.  fnv 64a is taken as    *)
(* injective: the hash is represented by the bytes written to it.          *)
(***************************************************************************)
\* sort.Slice of lines 398-400 over the pairs not yet placed
RECURSIVE SortItems(_)
SortItems(S) ==
    IF S = {} THEN <<>>
    ELSE CHOOSE r \in {<<m>> \o SortItems(S \ {m}) :
                          m \in {CHOOSE x \in S : \A y \in S \ {x} : StrLess(x[1], y[1])}} : TRUE

\* lines 393-402: the pairs of the map, ascending by key
sortMap(m) == SortItems({m[i] : i \in 1..Len(m)})

\* lines 381-385: key, value and 0xff of every pair
RECURSIVE WriteLabels(_)
WriteLabels(kv) ==
    IF kv = <<>> THEN <<>>
    ELSE Head(kv)[1] \o Head(kv)[2] \o <<"0xff">> \o WriteLabels(Tail(kv))

\* lines 370-387
calculateRuleID(r) ==
    r.Expr
    \o (IF r.Record # <<>> THEN <<"recording">> \o r.Record ELSE <<"alerting">> \o r.Alert)
    \o WriteLabels(sortMap(r.Labels))

\* mutant: the identities seen are not recorded
RECURSIVE DedupLoopForgetful(_, _, _)
DedupLoopForgetful(grpRules, uniqRules, rules_) ==
    IF grpRules = <<>> THEN rules_
    ELSE CHOOSE r \in
            {DedupLoopForgetful(rest, uniqRules, IF id \in uniqRules THEN rules_ ELSE Append(rules_, rule)) :
                rest \in {Tail(grpRules)}, rule \in {Head(grpRules)},
                id \in {calculateRuleID(Head(grpRules))}} : TRUE

\* the loop of lines 354-362 over the rules of one group
RECURSIVE DedupLoop(_, _, _)
DedupLoop(grpRules, uniqRules, rules_) ==
    IF grpRules = <<>> THEN rules_
    ELSE CHOOSE r \in
            {IF id \in uniqRules
             THEN DedupLoop(rest, uniqRules, rules_)
             ELSE DedupLoop(rest, uniqRules \cup {id}, Append(rules_, rule)) :
                rest \in {Tail(grpRules)}, rule \in {Head(grpRules)},
                id \in {calculateRuleID(Head(grpRules))}} : TRUE

\* lines 348-368
deduplicateRules(origin) ==
    [v \in 1..Len(origin) |->
        [origin[v] EXCEPT !.Groups =
            [i \in 1..Len(origin[v].Groups) |->
                [origin[v].Groups[i] EXCEPT !.Rules = DedupLoop(@, {}, <<>>)]]]]

Rule(expr, record, alert, labels) ==
    [Expr |-> expr, Record |-> record, Alert |-> alert, Labels |-> labels]

\* rules handed to deduplicateRules: an alerting and a recording rule, two pairs
\* of rules whose strings differ and concatenate to the same bytes, and two rules
\* with the same labels inserted in different orders
DedupRules ==
    {Rule(<<"up">>, <<>>, <<"Down">>, <<>>),
     Rule(<<"up">>, <<"Down">>, <<>>, <<>>),
     Rule(<<"up">>, <<>>, <<"alerting", "Down">>, <<>>),
     Rule(<<"up", "alerting">>, <<>>, <<"Down">>, <<>>),
     Rule(<<"up">>, <<>>, <<"Down">>, <<<<<<"k">>, <<"k", "l">>>>, <<<<"l">>, <<"k">>>>>>),
     Rule(<<"up">>, <<>>, <<"Down">>, <<<<<<"l">>, <<"k">>>>, <<<<"k">>, <<"k", "l">>>>>>),
     Rule(<<"up">>, <<>>, <<"Down">>, <<<<<<"k">>, <<"k", "l">>>>>>),
     Rule(<<"up">>, <<>>, <<"Down">>, <<<<<<"k", "k">>, <<"l">>>>>>)}

\* the rules of the groups of a rule object with several groups
DedupFewRules ==
    {Rule(<<"up">>, <<>>, <<"Down">>, <<>>),
     Rule(<<"up">>, <<"Down">>, <<>>, <<>>),
     Rule(<<"up">>, <<>>, <<"Down">>, <<<<<<"k">>, <<"k", "l">>>>>>)}

Group(name, grpRules) == [Name |-> name, Rules |-> grpRules]

VMRule(ns, name, groups) == [Namespace |-> ns, Name |-> name, Groups |-> groups]

DedupOrigins ==
    {<<VMRule(<<"a">>, <<"a">>, <<Group("g1", l)>>)>> : l \in ListsOver(DedupRules, MaxGroupRules)}
    \cup {<<VMRule(<<"a">>, <<"a">>, <<Group("g1", l1), Group("g2", l2)>>)>> :
             l1, l2 \in ListsOver(DedupFewRules, 2)}
    \cup {<<VMRule(<<"a">>, <<"a">>, <<Group("g1", l1)>>),
            VMRule(<<"a">>, <<"a", "-", "a">>, <<Group("g1", l2)>>)>> :
             l1, l2 \in ListsOver(DedupFewRules, 2)}

InitDedup ==
    /\ InitCluster
    /\ InitLocals
    /\ sources \in DedupOrigins
    /\ unmanaged = FALSE
    /\ pc = "dedup"

\* line 204: vmRules = deduplicateRules(ctx, vmRules)
Dedup ==
    /\ pc = "dedup"
    /\ \E out \in {deduplicateRules(sources)} : vmRules' = out
    /\ pc' = "deduped"
    /\ UNCHANGED <<owners, sources, unmanaged, store, statusStore, badRules, rules,
                   badConfigsAdded, planned, calls, reloaded, result, events, hist>>

SpecDedup == InitDedup /\ [][Dedup]_vars

(***************************************************************************)
(* Two VMAlert objects, each writing the ConfigMaps makeRulesConfigMaps    *)
(* gives it, their writes interleaved.                                     *)
(***************************************************************************)
OwnerNames ==
    {<<"a">>, <<"a", "-", "a">>, <<"a", "-", "rulefiles">>,
     <<"a", "-", "rulefiles", "-", "0">>}

OwnerCRs == {[Name |-> n, Namespace |-> ns] : n \in OwnerNames, ns \in {<<"a">>, <<"default">>}}

\* file maps that pack into one, two and three buckets
OwnerFileMaps ==
    {[f \in D |-> Content("x", MaxConfigMapDataSize - 1)] :
        D \in {{<<"a", "-", "a", ".yaml">>},
               {<<"a", "-", "a", ".yaml">>, <<"a", "-", "a", "-", "a", ".yaml">>},
               {<<"a", "-", "a", ".yaml">>, <<"a", "-", "a", "-", "a", ".yaml">>,
                DefaultFile}}}

OwnerStart(cr, files) == [cr |-> cr, files |-> files, cms |-> <<>>, next |-> 0]

InitOwners ==
    /\ store = {}
    /\ statusStore = EmptyMap
    /\ events = 0
    /\ prevOK = FALSE
    /\ prevQuiet = FALSE
    /\ srcChanged = FALSE
    /\ wr = "no"
    /\ InitLocals
    /\ sources = <<>>
    /\ unmanaged = FALSE
    /\ pc = "owners"
    /\ \E c1, c2 \in OwnerCRs, files1, files2 \in OwnerFileMaps :
        /\ c1 # c2
        /\ owners = <<OwnerStart(c1, files1), OwnerStart(c2, files2)>>

\* line 74 for the k-th VMAlert: its desired ConfigMaps
PackOwner(k) ==
    /\ pc = "owners"
    /\ owners[k].next = 0
    /\ \E cms \in {makeRulesConfigMaps(owners[k].cr, owners[k].files)} :
        owners' = [owners EXCEPT ![k].cms = cms, ![k].next = 1]
    /\ UNCHANGED <<sources, unmanaged, store, statusStore, pc, selected, planned, calls,
                   reloaded, result, events, hist>>

\* lines 119 and 132 for the k-th VMAlert: its next ConfigMap is created, or
\* updated when an object of its identity is stored
WriteOwner(k) ==
    /\ pc = "owners"
    /\ owners[k].next \in 1..Len(owners[k].cms)
    /\ store' = StoreAfterUpdate(store, owners[k].cms[owners[k].next])
    /\ owners' = [owners EXCEPT ![k].next = @ + 1]
    /\ UNCHANGED <<sources, unmanaged, statusStore, pc, selected, planned, calls,
                   reloaded, result, events, hist>>

PackOwners == \E k \in {1, 2} : PackOwner(k)

WriteOwners == \E k \in {1, 2} : WriteOwner(k)

NextOwners == PackOwners \/ WriteOwners

SpecOwners == InitOwners /\ [][NextOwners]_vars

(***************************************************************************)
(* Properties of makeRulesConfigMaps (SpecPack).                           *)
(***************************************************************************)
BucketOf(i) == newConfigMaps[i].Data

AllFilesFit == \A f \in DOMAIN rules : Len(rules[f]) <= MaxConfigMapDataSize

\* C1 as stated: whatever the sizes of the files, every bucket the Packer
\* produces has a total content size of at most MaxConfigMapDataSize.
C1_EveryBucketWithinCap ==
    pc = "packed" =>
        \A i \in 1..Len(newConfigMaps) : bucketSize(BucketOf(i)) <= MaxConfigMapDataSize

\* C1 amended: when no single file is larger than MaxConfigMapDataSize, every
\* bucket the Packer produces has a total content size of at most
\* MaxConfigMapDataSize.
C1_BucketsWithinCapWhenFilesFit ==
    (pc = "packed" /\ AllFilesFit) =>
        \A i \in 1..Len(newConfigMaps) : bucketSize(BucketOf(i)) <= MaxConfigMapDataSize

\* three files that fit, packed into several buckets, one of them full
C1_Witness ==
    /\ pc = "packed"
    /\ AllFilesFit
    /\ Cardinality(DOMAIN rules) = 3
    /\ Len(newConfigMaps) >= 2
    /\ \E i \in 1..Len(newConfigMaps) : bucketSize(BucketOf(i)) = MaxConfigMapDataSize

\* C2: packing is lossless: every input file is in exactly one bucket, with its
\* content unchanged, and the buckets hold nothing but input files.
C2_PackingLossless ==
    pc = "packed" =>
        /\ \A f \in DOMAIN rules :
            /\ Cardinality({i \in 1..Len(newConfigMaps) : f \in DOMAIN BucketOf(i)}) = 1
            /\ \A i \in 1..Len(newConfigMaps) :
                f \in DOMAIN BucketOf(i) => BucketOf(i)[f] = rules[f]
        /\ \A i \in 1..Len(newConfigMaps) : DOMAIN BucketOf(i) \subseteq DOMAIN rules

\* three files spread over three buckets, one file larger than the cap
C2_Witness ==
    /\ pc = "packed"
    /\ Cardinality(DOMAIN rules) = 3
    /\ Len(newConfigMaps) >= 3
    /\ ~AllFilesFit

(***************************************************************************)
(* Properties of selectRulesUpdateStatus (SpecSelect).                     *)
(***************************************************************************)
\* the loop of lines 208-224 has run
SelectionDone == rules # EmptyMap

ExpectedError(o) == IF o.Invalid THEN ErrValidate ELSE ErrRender(o.Name)

IsBad(o) == ~o.Deleting /\ (o.Invalid \/ o.Unrenderable)

IsValid(o) == ~o.Deleting /\ ~o.Invalid /\ ~o.Unrenderable

\* C3 as stated: rule objects with pairwise distinct (namespace, name) get
\* pairwise distinct filenames, so the file map holds one entry per valid object.
C3_OneFilePerValidSource ==
    (SelectionDone /\ DistinctIds(sources) /\ vmRules # <<>>) =>
        /\ \A i, j \in 1..Len(vmRules) : i # j => FileName(vmRules[i]) # FileName(vmRules[j])
        /\ Cardinality(DOMAIN rules) = Len(vmRules)

\* no file of the file map comes from a bad object
BadNoFile ==
    \A f \in DOMAIN rules :
        \/ vmRules = <<>> /\ f = DefaultFile /\ rules[f] = defAlert
        \/ \E i \in 1..Len(vmRules) : FileName(vmRules[i]) = f /\ vmRules[i].Content = rules[f]

\* every bad object is in badRules with its error
BadCarryError ==
    /\ \A i \in 1..Len(sources) :
        IsBad(sources[i]) =>
            \E j \in 1..Len(badRules) :
                /\ Id(badRules[j]) = Id(sources[i])
                /\ badRules[j].CurrentSyncError = ExpectedError(sources[i])
    /\ \A j \in 1..Len(badRules) : badRules[j].CurrentSyncError # NoError

\* the status write of badRules was issued and, when it succeeded, stored
BadStatusWritten ==
    /\ BadCarryError
    /\ \E k \in 1..Len(calls) : calls[k].op = "status" /\ calls[k].target = <<"bad">>
    /\ \A k \in 1..Len(calls) :
        (calls[k].op = "status" /\ calls[k].target = <<"bad">> /\ calls[k].res = "ok") =>
            \A j \in 1..Len(badRules) :
                /\ Id(badRules[j]) \in DOMAIN statusStore
                /\ statusStore[Id(badRules[j])] = badRules[j].CurrentSyncError

\* C5 as stated: in every run in which the selection succeeded, every bad object
\* contributes no file and receives a status write carrying its error, whatever
\* the outcome of the other steps.
C5_BadAlwaysGetsStatus ==
    (SelectionDone /\ pc \in {"done", "get"}) => (BadNoFile /\ BadStatusWritten)

\* C5 amended: in every run in which the selection succeeded, every bad object
\* contributes no file; it receives a status write carrying its error in every
\* such run in which the status write of the valid objects succeeded (when that
\* write fails, the run returns before the write of the bad objects).
C5_BadGetsStatusAfterValidWrite ==
    SelectionDone =>
        /\ BadNoFile
        /\ BadCarryError
        /\ (pc \notin {"statusValid", "statusBad"} /\ ~(pc = "done" /\ result.err = "status"))
               => BadStatusWritten

\* a run with a bad and a valid object whose status writes both succeeded
C5_Witness ==
    /\ pc = "get"
    /\ badRules # <<>>
    /\ vmRules # <<>>
    /\ \A j \in 1..Len(badRules) :
        /\ Id(badRules[j]) \in DOMAIN statusStore
        /\ statusStore[Id(badRules[j])] = badRules[j].CurrentSyncError

\* C6: every selected object ends in exactly one of the valid and the bad
\* partition; a bad object contributes no file and carries its error; every valid
\* object contributes its file; the counter grows by the number of bad objects.
C6_ErrorIsolation ==
    SelectionDone =>
        /\ \A i \in 1..Len(sources) :
            ~sources[i].Deleting =>
                Cardinality({j \in 1..Len(vmRules) : Id(vmRules[j]) = Id(sources[i])})
                + Cardinality({j \in 1..Len(badRules) : Id(badRules[j]) = Id(sources[i])}) = 1
        /\ BadNoFile
        /\ BadCarryError
        /\ \A i \in 1..Len(sources) :
            IsValid(sources[i]) =>
                /\ FileName(sources[i]) \in DOMAIN rules
                /\ rules[FileName(sources[i])] = sources[i].Content
        /\ badConfigsAdded = Cardinality({i \in 1..Len(sources) : IsBad(sources[i])})

\* C10: the desired ConfigMaps are never empty; without a valid object they are
\* one ConfigMap, index 0, holding the default rule file and nothing else; with a
\* valid object no ConfigMap holds the default rule.
C10_DefaultRuleOnlyWhenNoValid ==
    (SelectionDone /\ pc = "get") =>
        /\ Len(newConfigMaps) >= 1
        /\ vmRules = <<>> =>
            /\ Len(newConfigMaps) = 1
            /\ newConfigMaps[1].Name = ruleConfigMapName(VMAlertCR.Name) \o <<"-", "0">>
            /\ DOMAIN BucketOf(1) = {DefaultFile}
            /\ BucketOf(1)[DefaultFile] = defAlert
        /\ vmRules # <<>> =>
            \A i \in 1..Len(newConfigMaps) :
                ~(DefaultFile \in DOMAIN BucketOf(i) /\ BucketOf(i)[DefaultFile] = defAlert)

\* objects were selected and none of them is valid
C10_Witness ==
    /\ pc = "get"
    /\ vmRules = <<>>
    /\ Len(badRules) >= 2
    /\ Len(newConfigMaps) = 1

(***************************************************************************)
(* Properties of the run (Spec, LiveSpec).                                 *)
(***************************************************************************)
\* a Create or an Update of this run changed the store
Committed ==
    \E k \in 1..Len(calls) :
        \/ calls[k].op = "create" /\ calls[k].res = "created"
        \/ calls[k].op = "update" /\ calls[k].res = "ok"

\* Create and Update calls of this run
IssuedWrites == {k \in 1..Len(calls) : calls[k].op \in {"create", "update"}}

\* C4 as stated: a run emits the reload signal exactly when it committed at least
\* one create or update.
C4_ReloadIffCommitted ==
    pc = "done" => (reloaded <=> Committed)

\* C4 amended: a run that returns without error emits the reload signal exactly
\* when the Differ scheduled at least one Create or Update, hence whenever it
\* committed one, and also when every scheduled Create was answered
\* already-exists; a run that returns an error emits no reload signal, even after
\* committed creates or updates; a run that issued no Create or Update emits none.
C4_ReloadIffScheduledAndNoError ==
    pc = "done" =>
        /\ reloaded <=> (result.err = "nil" /\ (Len(toCreate) > 0 \/ Len(toUpdate) > 0))
        /\ (result.err = "nil" /\ Committed) => reloaded
        /\ result.err # "nil" => ~reloaded
        /\ IssuedWrites = {} => ~reloaded

\* a run that created one ConfigMap, updated another and reloaded the pods
C4_Witness ==
    /\ pc = "done"
    /\ result.err = "nil"
    /\ reloaded
    /\ \E k \in 1..Len(calls) : calls[k].op = "create" /\ calls[k].res = "created"
    /\ \E k \in 1..Len(calls) : calls[k].op = "update" /\ calls[k].res = "ok"

\* C7 as stated: after a run that returned without error, a second run with
\* unchanged rules against the store the first run left issues no Create, no
\* Update and no reload signal.
C7_SecondRunIssuesNothing ==
    (pc # "idle" /\ prevOK /\ ~srcChanged /\ wr = "no") =>
        (IssuedWrites = {} /\ ~reloaded)

\* C7 amended: after a run that returned without error and during which no other
\* writer wrote to the ConfigMaps (in particular no Create was answered
\* already-exists, so the store holds that run's own output), a second run with
\* unchanged rules against that store issues no Create, no Update and no reload
\* signal.
C7_SecondRunIssuesNothingAfterQuietRun ==
    (pc # "idle" /\ prevOK /\ prevQuiet /\ ~srcChanged /\ wr = "no") =>
        (IssuedWrites = {} /\ ~reloaded)

\* a second run over two ConfigMaps that returned without having written
C7_Witness ==
    /\ pc = "done"
    /\ prevOK /\ prevQuiet /\ ~srcChanged /\ wr = "no"
    /\ ~unmanaged
    /\ result.err = "nil"
    /\ Len(result.names) >= 2
    /\ \A i \in 1..Len(newConfigMaps) : newConfigMaps[i] \in store

\* the ConfigMaps the current rules ask for
Desired ==
    makeRulesConfigMaps(VMAlertCR,
        InjectDefault(ValidateLoop(VisitObjects(sources),
            [valid |-> <<>>, bad |-> <<>>, rules |-> EmptyMap]).rules))

\* every desired ConfigMap is in the store with the data of its bucket
Converged ==
    unmanaged \/
    \A i \in 1..Len(Desired) :
        \E o \in Stored(Desired[i].Namespace, Desired[i].Name) : o.Data = Desired[i].Data

\* C8: once the rules stop changing, no other writer writes and the API calls
\* succeed (the budget of events is used up or left unused), the repeated runs
\* reach, and then stay in, a state where every desired ConfigMap is stored with
\* the data of its bucket.
C8_Convergence == <>[]Converged

\* converged, after an update repaired a ConfigMap, with the budget of events used
C8_Witness ==
    /\ pc = "done"
    /\ ~unmanaged
    /\ Converged
    /\ events = MaxEvents
    /\ Len(Desired) >= 2
    /\ \E k \in 1..Len(calls) : calls[k].op = "update" /\ calls[k].res = "ok"

(***************************************************************************)
(* Properties of rulesCMDiff (SpecDiff).                                   *)
(***************************************************************************)
InList(cms, name) == \E k \in 1..Len(cms) : cms[k].Name = name

\* C9: rulesCMDiff puts a desired ConfigMap into toCreate iff no current one has
\* its name, into toUpdate iff a current one has its name and the data, the labels
\* or the merged annotations differ from the current object's, and into neither
\* otherwise; never into both, and nothing else is returned.
C9_DiffClassifies ==
    pc = "diffed" =>
        /\ \A i \in 1..Len(newConfigMaps) :
            LET n == newConfigMaps[i]
                m == {j \in 1..Len(currentCMs) : currentCMs[j].Name = n.Name}
                cur == currentCMs[CHOOSE j \in m : TRUE]
                differs ==
                    \/ n.Data # cur.Data
                    \/ n.Labels # cur.Labels
                    \/ [k \in (DOMAIN cur.Annotations) \cup (DOMAIN n.Annotations) |->
                           IF k \in DOMAIN n.Annotations THEN n.Annotations[k]
                           ELSE cur.Annotations[k]] # cur.Annotations
            IN  /\ InList(toCreate, n.Name) <=> m = {}
                /\ InList(toUpdate, n.Name) <=> (m # {} /\ differs)
                /\ ~(InList(toCreate, n.Name) /\ InList(toUpdate, n.Name))
        /\ Len(toCreate) =
             Cardinality({i \in 1..Len(newConfigMaps) : InList(toCreate, newConfigMaps[i].Name)})
        /\ Len(toUpdate) =
             Cardinality({i \in 1..Len(newConfigMaps) : InList(toUpdate, newConfigMaps[i].Name)})

\* three desired ConfigMaps: one created, one updated for its labels only, one left
C9_Witness ==
    /\ pc = "diffed"
    /\ Len(newConfigMaps) = 3
    /\ Len(toCreate) = 1
    /\ Len(toUpdate) = 1
    /\ \E j \in 1..Len(currentCMs) :
        /\ currentCMs[j].Name = toUpdate[1].Name
        /\ currentCMs[j].Data = toUpdate[1].Data
        /\ currentCMs[j].Labels # toUpdate[1].Labels

(***************************************************************************)
(* Properties of the Create, Update and reload steps (Spec).               *)
(***************************************************************************)
\* the calls of this run that were answered by an error
FailedCalls == {k \in 1..Len(calls) : calls[k].res = "error"}

\* the targets of the calls of this run with this operation
Targets(op) == {calls[k].target : k \in {j \in 1..Len(calls) : calls[j].op = op}}

\* C11: a Create answered already-exists does not abort the run: in a run that has
\* returned, had such an answer and had no call answered by another error, every
\* scheduled create and every scheduled update was attempted and the run returned
\* the names of the desired ConfigMaps with no error.
C11_ConflictDoesNotAbort ==
    (/\ pc = "done"
     /\ \E k \in 1..Len(calls) : calls[k].op = "create" /\ calls[k].res = "exists"
     /\ FailedCalls \subseteq {k \in 1..Len(calls) : calls[k].op = "reload"})
    => /\ result.err = "nil"
       /\ result.names = NamesOf(newConfigMaps)
       /\ Len(result.names) > 0
       /\ \A i \in 1..Len(toCreate) : toCreate[i].Name \in Targets("create")
       /\ \A i \in 1..Len(toUpdate) : toUpdate[i].Name \in Targets("update")

\* a run where the first of two creates was answered already-exists, the second
\* created its ConfigMap and an update followed
C11_Witness ==
    /\ pc = "done"
    /\ result.err = "nil"
    /\ \E j, k \in 1..Len(calls) :
        /\ j < k
        /\ calls[j].op = "create" /\ calls[j].res = "exists"
        /\ calls[k].op \in {"create", "update"} /\ calls[k].res \in {"created", "ok"}

\* the names of the desired ConfigMaps of the current run
DesiredNames == {newConfigMaps[i].Name : i \in 1..Len(newConfigMaps)}

\* C12: no step of a run deletes a ConfigMap: every stored object keeps an object
\* of its identity, and a stored object whose name is not among the desired names
\* of the run is left in the store unchanged.
C12_NoDeletion ==
    [][Reconcile =>
        \A o \in store :
            /\ Stored(o.Namespace, o.Name)' # {}
            /\ o.Name \notin DesiredNames => o \in store']_vars

\* after the bucket count shrank: a run has updated a ConfigMap and returned, and
\* a ConfigMap made by an earlier run, no longer desired, is still stored
C12_Witness ==
    /\ pc = "done"
    /\ result.err = "nil"
    /\ \E k \in 1..Len(calls) : calls[k].op = "update" /\ calls[k].res = "ok"
    /\ \E o \in store :
        /\ o.Name \notin DesiredNames
        /\ o.Labels = makeRulesConfigMap(VMAlertCR, EmptyMap).Labels

\* C14 as stated: a run whose Gets found none of the desired ConfigMaps creates
\* them all and returns their names without any release, update or reload signal.
C14_FastPathWhenNothingExists ==
    (/\ pc = "done"
     /\ result.err = "nil"
     /\ newConfigMaps # <<>>
     /\ \A i \in 1..Len(currentCMs) : currentCMs[i] = ZeroCM)
    => /\ DesiredNames \subseteq Targets("create")
       /\ result.names = NamesOf(newConfigMaps)
       /\ Targets("free") \cup Targets("update") = {}
       /\ ~reloaded

\* a Create, release or Update call of this run that aborts it
Aborting(k) ==
    /\ calls[k].op \in {"create", "free", "update"}
    /\ calls[k].res = "error"

\* the object written by the k-th call of this run, as a set of at most one element
Written(k) ==
    IF calls[k].op = "create" /\ calls[k].res = "created"
    THEN {toCreate[i] : i \in {j \in 1..Len(toCreate) : toCreate[j].Name = calls[k].target}}
    ELSE IF calls[k].op = "update" /\ calls[k].res = "ok"
    THEN {toUpdate[i] : i \in {j \in 1..Len(toUpdate) : toUpdate[j].Name = calls[k].target}}
    ELSE {}

\* C15: every Create call of a run comes before every release and Update call; a
\* Create error other than already-exists, a release error or an Update error is
\* the last call of the run, which returns an error and emits no reload signal;
\* what the run created or updated before stays in the store (no other writer
\* having written during the run).
C15_CreatesFirstAbortNoRollback ==
    /\ \A j, k \in 1..Len(calls) :
        (j < k /\ calls[j].op \in {"free", "update"}) => calls[k].op # "create"
    /\ \A k \in 1..Len(calls) :
        Aborting(k) =>
            /\ k = Len(calls)
            /\ pc = "done"
            /\ result.err \notin {"nil", "none"}
            /\ result.names = <<>>
            /\ ~reloaded
    /\ wr # "run" => \A k \in 1..Len(calls) : Written(k) \subseteq store

\* a run that created a ConfigMap, then failed to update another one: it returned
\* an error and the created ConfigMap is stored
C15_Witness ==
    /\ pc = "done"
    /\ wr # "run"
    /\ result.err \notin {"nil", "none"}
    /\ \E j, k \in 1..Len(calls) :
        /\ j < k
        /\ calls[j].op = "create" /\ Written(j) # {} /\ Written(j) \subseteq store
        /\ calls[k].op = "update" /\ Aborting(k)

(***************************************************************************)
(* More properties of makeRulesConfigMaps (SpecPack).                      *)
(***************************************************************************)
\* the index (from 0) of the bucket that holds file f
BucketIndexOf(f) ==
    (CHOOSE i \in 1..Len(newConfigMaps) : f \in DOMAIN BucketOf(i)) - 1

\* the files before g in ascending byte order
FilesBefore(g) == {f \in DOMAIN rules : StrLess(f, g)}

\* the bucket that is current when g is visited: the bucket of the file just
\* before g, bucket 0 for the first file
CurrentBefore(g) ==
    IF FilesBefore(g) = {} THEN 0
    ELSE BucketIndexOf(CHOOSE f \in FilesBefore(g) :
            \A h \in FilesBefore(g) : h = f \/ StrLess(h, f))

\* the size of that bucket when g is visited
SizeBefore(g) ==
    bucketSize([f \in {h \in FilesBefore(g) : BucketIndexOf(h) = CurrentBefore(g)}
                   |-> rules[f]])

ThreeFilesExample(a, b, c) ==
    /\ DOMAIN rules = {a, b, c}
    /\ StrLess(a, b) /\ StrLess(b, c)
    /\ Len(rules[a]) = MaxConfigMapDataSize - 1
    /\ Len(rules[b]) = 2
    /\ Len(rules[c]) = MaxConfigMapDataSize - 1

\* C17 as stated: with sizes C-1, 2 and C-1 the second file is in bucket 0 with
\* the first one.
C17_SecondFileJoinsBucketZero ==
    pc = "packed" =>
        \A a, b, c \in DOMAIN rules :
            ThreeFilesExample(a, b, c) => BucketIndexOf(a) = 0 /\ BucketIndexOf(b) = 0

\* C17 amended: with sizes C-1, 2 and C-1 the second file does not fit into
\* bucket 0 ((C-1) + 2 > C): the three files are in buckets 0, 1 and 2, one each.
C17_EachFileInItsOwnBucket ==
    pc = "packed" =>
        \A a, b, c \in DOMAIN rules :
            ThreeFilesExample(a, b, c) =>
                /\ BucketIndexOf(a) = 0 /\ BucketIndexOf(b) = 1 /\ BucketIndexOf(c) = 2
                /\ Len(newConfigMaps) = 3

\* the three files of the example have been packed
C17_Witness ==
    /\ pc = "packed"
    /\ \E a, b, c \in DOMAIN rules : ThreeFilesExample(a, b, c)
    /\ Len(newConfigMaps) = 3

\* C20 as stated: every bucket made from a non-empty file map holds at least one
\* file.
C20_NoEmptyBucket ==
    (pc = "packed" /\ rules # EmptyMap) =>
        \A i \in 1..Len(newConfigMaps) : BucketOf(i) # EmptyMap

(***************************************************************************)
(* Properties of the ConfigMap identities (SpecOwners).                    *)
(***************************************************************************)
\* the identity of the ConfigMap of bucket i of a VMAlert
ArtifactId(cr, i) ==
    <<makeRulesConfigMap(cr, EmptyMap).Namespace,
      makeRulesConfigMap(cr, EmptyMap).Name \o <<"-">> \o Itoa(i)>>

\* the ConfigMaps the k-th VMAlert has written so far
WrittenBy(k) ==
    IF owners[k].next = 0 THEN {}
    ELSE {owners[k].cms[m] : m \in 1..(owners[k].next - 1)}

\* C13: two distinct VMAlert objects have disjoint ConfigMap identities, for all
\* bucket indexes; so, however their writes interleave, no write of one replaces
\* an object the other has written.
C13_DisjointIdentities ==
    pc = "owners" =>
        /\ \A i, j \in 0..MaxBucketIndex :
            ArtifactId(owners[1].cr, i) # ArtifactId(owners[2].cr, j)
        /\ WrittenBy(1) \cup WrittenBy(2) \subseteq store
        /\ \A o \in WrittenBy(1), q \in WrittenBy(2) :
            <<o.Namespace, o.Name>> # <<q.Namespace, q.Name>>

\* two VMAlert objects of one namespace, the name of one being the ConfigMap
\* name stem of the other, have both written all their ConfigMaps
C13_Witness ==
    /\ pc = "owners"
    /\ owners[1].cr.Namespace = owners[2].cr.Namespace
    /\ owners[1].cr.Name = <<"a">>
    /\ owners[2].cr.Name = <<"a", "-", "rulefiles", "-", "0">>
    /\ \A k \in {1, 2} : owners[k].next = Len(owners[k].cms) + 1 /\ owners[k].next >= 3

(***************************************************************************)
(* Properties of deduplicateRules and calculateRuleID (SpecDedup).         *)
(***************************************************************************)
\* the rules of all groups of the rule objects handed to deduplicateRules
RulesOfOrigin ==
    UNION {UNION {{sources[v].Groups[i].Rules[n] : n \in 1..Len(sources[v].Groups[i].Rules)} :
                     i \in 1..Len(sources[v].Groups)} :
              v \in 1..Len(sources)}

LabelSet(r) == {r.Labels[i] : i \in 1..Len(r.Labels)}

\* the same expression, kind, record or alert name, and label keys and values
SameFields(r, q) ==
    /\ r.Expr = q.Expr
    /\ r.Record = q.Record
    /\ r.Alert = q.Alert
    /\ LabelSet(r) = LabelSet(q)

\* C18 as stated: two rules have the same identity when their fields are equal,
\* whatever the order the labels were inserted in, and different identities when
\* they differ in expression, kind, name or any label key or value.
C18_IdentityExact ==
    pc = "deduped" =>
        \A r, q \in RulesOfOrigin :
            SameFields(r, q) <=> calculateRuleID(r) = calculateRuleID(q)

\* the indexes of the first occurrences of the identities of a list of rules
FirstOccurrences(l) ==
    {n \in 1..Len(l) : \A m \in 1..(n - 1) : calculateRuleID(l[m]) # calculateRuleID(l[n])}

\* out is the subsequence of l at these indexes
IsSubsequenceAt(out, l, keep) ==
    /\ Len(out) = Cardinality(keep)
    /\ \A m \in 1..Len(out) :
        out[m] = l[CHOOSE n \in keep : Cardinality({j \in keep : j <= n}) = m]

====
